---- MODULE Spec2Model ----
(***************************************************************************)
(* Session context (AuthContext.tsx), profile upsert-by-fallback and the   *)
(* Dashboard's profile / resume synchronisation, as state machines.        *)
(*                                                                         *)
(* JavaScript values: every object is a record, null and undefined are the *)
(* record NULL, a string is a sequence of one-character strings, and an    *)
(* optional string is NULL or Str(s).                                      *)
(***************************************************************************)
EXTENDS Integers, Sequences, FiniteSets, TLC

\* ------------------------------------------------------------------ bounds
MaxCalls == 2       \* updateProfile invocations in one behaviour
MaxRuns == 2        \* runs of the Dashboard fetch effect
MaxUploads == 1     \* uploads completed by the upload component
MaxEvents == 1      \* provider state-change events not yet delivered
MaxVer == 1         \* session objects the provider issues
MaxOps == 1         \* signUp / signIn / magic-link / signOut invocations
MaxReloads == 1     \* page reloads

\* ------------------------------------------------------------------ values
NULL == [null |-> TRUE]
Str(s) == [s |-> s]

\* JavaScript `v || ''` on an optional string
OrEmpty(v) == IF v = NULL THEN <<>> ELSE v.s

Err(code) == [code |-> code]
PGRST116 == "PGRST116"
DuplicateKey == "23505"
OtherError == "OTHER"

\* what a rejected promise carries: an Error, or some other value
Thrown == [code |-> "THROWN", isError |-> TRUE]
ThrownOther == [code |-> "THROWN", isError |-> FALSE]

Users == {"u1", "u2"}
Names == {<<"n">>, <<"m">>}
AvatarArgs == {NULL, Str(<<"p">>)}

VARIABLES
  user, session, loading,      \* AuthProvider state
  provSession, events, gs,     \* identity provider: session, queued events, getSession promise
  ver, ops, reloads,           \* session objects issued, finished operations, reload count
  lastEv,                      \* the event the callback handled last
  calls, hist,                 \* updateProfile invocations and their history
  profiles,                    \* the profiles table
  attrs,                       \* identity attributes of the dashboard's user
  profile, resumes, dLoading, editingProfile, newName, showUploadModal,
  runs, effectUser,            \* fetch-effect runs, the user the effect last ran for
  resumeRows, clock, pendingUpload, uploads

authVars == <<user, session, loading>>
provVars == <<provSession, events, gs, ver, ops, reloads, lastEv>>
upVars == <<calls, hist>>
dashVars == <<attrs, profile, resumes, dLoading, editingProfile, newName,
              showUploadModal, runs, effectUser>>
resVars == <<resumeRows, clock, pendingUpload, uploads>>
vars == <<authVars, provVars, upVars, profiles, dashVars, resVars>>

\* a session object and its user object; ver tells one object from the next
UserObj(id, v) == [id |-> id, ver |-> v]
SessionObj(id, v) == [user |-> UserObj(id, v)]

\* ------------------------------------------------------- the profiles table
Row(id, name, avatar) == [id |-> id, name |-> name, avatar_url |-> avatar]

HasRow(rows, id) == \E i \in 1..Len(rows) : rows[i].id = id
RowsOf(rows, id) == {i \in 1..Len(rows) : rows[i].id = id}
RowOf(rows, id) == rows[CHOOSE i \in 1..Len(rows) : rows[i].id = id]

ApplyUpdate_NameOnly(rows, id, name, avatar) ==
  [i \in 1..Len(rows) |->
     IF rows[i].id = id THEN Row(id, name, rows[i].avatar_url) ELSE rows[i]]

\* UPDATE profiles SET name, avatar_url WHERE id = id
ApplyUpdate(rows, id, name, avatar) ==
  [i \in 1..Len(rows) |->
     IF rows[i].id = id THEN Row(id, name, avatar) ELSE rows[i]]

\* The answers the store can give to the update: <<error, rows after>>.
\* A filter that matches a row changes it; a filter that matches none is
\* answered with the "no rows" code the caller tests for, or with no error.
\* Any request can fail with another error and change nothing.
StoreUpdate(rows, id, name, avatar) ==
  (IF HasRow(rows, id)
     THEN {<<NULL, ApplyUpdate(rows, id, name, avatar)>>}
     ELSE {<<Err(PGRST116), rows>>, <<NULL, rows>>})
  \cup {<<Err(OtherError), rows>>}

StoreInsert_NoKey(rows, id, name, avatar) ==
  {<<NULL, Append(rows, Row(id, name, avatar))>>, <<Err(OtherError), rows>>}

\* INSERT INTO profiles: id is the PRIMARY KEY
StoreInsert(rows, id, name, avatar) ==
  (IF HasRow(rows, id)
     THEN {<<Err(DuplicateKey), rows>>}
     ELSE {<<NULL, Append(rows, Row(id, name, avatar))>>})
  \cup {<<Err(OtherError), rows>>}

\* ------------------------------------------------------------ updateProfile
IdleCall == [pc |-> "idle", uid |-> "", name |-> <<>>, avatarUrl |-> NULL,
             reqs |-> <<>>, updErr |-> NULL, insErr |-> NULL,
             existed |-> FALSE, result |-> NULL]

Req(kind, id, name, avatar) ==
  [kind |-> kind, id |-> id, name |-> name, avatar_url |-> avatar]

InFlight(c) == calls[c].pc = "awaitUpdate"

Started(c, h) ==
  [h EXCEPT !.overlap = h.overlap \/ \E d \in 1..MaxCalls : d # c /\ InFlight(d)]

Finished(c, h, error) ==
  [h EXCEPT !.lastDone = c, !.lastOk = IF error = NULL THEN c ELSE h.lastOk]

\* lines 359-373: the guard on user and the update request
UpdateProfileCall(c, name, avatarUrl) ==
  /\ calls[c].pc = "idle"
  /\ \A d \in 1..(c-1) : calls[d].pc # "idle"
  /\ IF user = NULL
       THEN /\ calls' = [calls EXCEPT ![c] =
                 [@ EXCEPT !.pc = "done", !.name = name, !.avatarUrl = avatarUrl,
                           !.result = [error |-> [msg |-> "No user found"]]]]
            /\ UNCHANGED <<hist, profiles>>
       ELSE \/ \E ans \in StoreUpdate(profiles, user.id, name, OrEmpty(avatarUrl)) :
                 /\ calls' = [calls EXCEPT ![c] =
                      [@ EXCEPT !.pc = "awaitUpdate", !.uid = user.id,
                                !.name = name, !.avatarUrl = avatarUrl,
                                !.reqs = <<Req("update", user.id, name, OrEmpty(avatarUrl))>>,
                                !.existed = HasRow(profiles, user.id),
                                !.updErr = ans[1]]]
                 /\ profiles' = ans[2]
                 /\ hist' = Started(c, hist)
            \/ \* the request throws: caught at line 391
               /\ calls' = [calls EXCEPT ![c] =
                      [@ EXCEPT !.pc = "done", !.uid = user.id,
                                !.name = name, !.avatarUrl = avatarUrl,
                                !.reqs = <<Req("update", user.id, name, OrEmpty(avatarUrl))>>,
                                !.existed = HasRow(profiles, user.id),
                                !.updErr = Thrown,
                                !.result = [error |-> Thrown]]]
               /\ hist' = Finished(c, Started(c, hist), Thrown)
               /\ UNCHANGED profiles
  /\ UNCHANGED <<authVars, provVars, dashVars, resVars>>

\* line 376: updateError && updateError.code === 'PGRST116'
InsertOnMiss_AnyError(updErr) == updErr # NULL

InsertOnMiss(updErr) == updErr # NULL /\ updErr.code = PGRST116

\* lines 375-390: the continuation after the update's answer
UpdateProfileResume(c) ==
  /\ calls[c].pc = "awaitUpdate"
  /\ LET k == calls[c] IN
     IF InsertOnMiss(k.updErr)
       THEN \/ \E ans \in StoreInsert(profiles, k.uid, k.name, OrEmpty(k.avatarUrl)) :
                 /\ calls' = [calls EXCEPT ![c] =
                      [@ EXCEPT !.pc = "done",
                                !.reqs = Append(@, Req("insert", k.uid, k.name, OrEmpty(k.avatarUrl))),
                                !.insErr = ans[1],
                                !.result = [error |-> ans[1]]]]
                 /\ profiles' = ans[2]
                 /\ hist' = Finished(c, hist, ans[1])
            \/ /\ calls' = [calls EXCEPT ![c] =
                      [@ EXCEPT !.pc = "done",
                                !.reqs = Append(@, Req("insert", k.uid, k.name, OrEmpty(k.avatarUrl))),
                                !.insErr = Thrown,
                                !.result = [error |-> Thrown]]]
               /\ hist' = Finished(c, hist, Thrown)
               /\ UNCHANGED profiles
       ELSE /\ calls' = [calls EXCEPT ![c] =
                 [@ EXCEPT !.pc = "done", !.result = [error |-> k.updErr]]]
            /\ hist' = Finished(c, hist, k.updErr)
            /\ UNCHANGED profiles
  /\ UNCHANGED <<authVars, provVars, dashVars, resVars>>


\* ---------------------------------------------------------- session context
\* session?.user ?? null
UserOf(s) == IF s = NULL THEN NULL ELSE s.user

Applied_SessionOnly(cur, s) == <<s, cur[2], FALSE>>

Applied_KeepOnNull(cur, s) ==
  IF s = NULL THEN <<cur[1], cur[2], FALSE>> ELSE <<s, UserOf(s), FALSE>>

\* lines 276-278 and 284-286: setSession, setUser, setLoading(false);
\* cur and the result are <<session, user, loading>>
Applied(cur, s) == <<s, UserOf(s), FALSE>>

\* the provider answers the pending getSession() with its session of the moment
GetSessionResolve ==
  /\ gs.st = "issued"
  /\ gs' = [st |-> "resolved", val |-> provSession]
  /\ UNCHANGED <<authVars, provSession, events, ver, ops, reloads, lastEv,
                 upVars, profiles, dashVars, resVars>>

\* lines 275-279: the continuation of getSession()
GetSessionThen ==
  /\ gs.st = "resolved"
  /\ gs' = [gs EXCEPT !.st = "done"]
  /\ LET a == Applied(<<session, user, loading>>, gs.val)
     IN session' = a[1] /\ user' = a[2] /\ loading' = a[3]
  /\ UNCHANGED <<provSession, events, ver, ops, reloads, lastEv,
                 upVars, profiles, dashVars, resVars>>

Event(name, s) == [event |-> name, session |-> s]

\* lines 282-288: the onAuthStateChange callback takes the oldest queued event
AuthStateChange ==
  /\ events # <<>>
  /\ events' = Tail(events)
  /\ LET a == Applied(<<session, user, loading>>, Head(events).session)
     IN session' = a[1] /\ user' = a[2] /\ loading' = a[3]
  /\ lastEv' = [event |-> Head(events).event, prev |-> user]
  /\ UNCHANGED <<provSession, gs, ver, ops, reloads,
                 upVars, profiles, dashVars, resVars>>

\* The provider installs a new session object and emits the event for it:
\* a completed magic link or confirmation (SIGNED_IN), or a refreshed token
\* of the signed-in user (TOKEN_REFRESHED).
Emit(name, s) ==
  /\ Len(events) < MaxEvents
  /\ provSession' = s
  /\ events' = Append(events, Event(name, s))

ProviderSignIn(u) ==
  /\ ver < MaxVer
  /\ ver' = ver + 1
  /\ Emit("SIGNED_IN", SessionObj(u, ver + 1))
  /\ UNCHANGED <<authVars, gs, ops, reloads, lastEv,
                 upVars, profiles, dashVars, resVars>>

ProviderRefresh ==
  /\ provSession # NULL
  /\ ver < MaxVer
  /\ ver' = ver + 1
  /\ Emit("TOKEN_REFRESHED", SessionObj(provSession.user.id, ver + 1))
  /\ UNCHANGED <<authVars, gs, ops, reloads, lastEv,
                 upVars, profiles, dashVars, resVars>>

\* The page is loaded again: AuthProvider is constructed anew (lines 268-291)
Reload ==
  /\ reloads < MaxReloads
  /\ reloads' = reloads + 1
  /\ user' = NULL /\ session' = NULL /\ loading' = TRUE
  /\ gs' = [st |-> "issued", val |-> NULL]
  /\ events' = <<>>
  /\ UNCHANGED <<provSession, ver, ops, lastEv,
                 upVars, profiles, dashVars, resVars>>

\* What the provider call of an operation can do
AuthError == [code |-> "AUTH", isError |-> TRUE]
UnknownError == [code |-> "Unknown error", isError |-> TRUE]
Outcomes ==
  {[kind |-> "ok"], [kind |-> "error", error |-> AuthError],
   [kind |-> "throw", thrown |-> Thrown], [kind |-> "throw", thrown |-> ThrownOther]}

\* error instanceof Error ? error : new Error('Unknown error')
Normalise(t) == IF t.isError THEN t ELSE UnknownError

Returned(v) == [escaped |-> FALSE, value |-> v]
Escaped(t) == [escaped |-> TRUE, value |-> t]

SignUpResult_DataOnError(o, data) ==
  CASE o.kind = "ok" -> Returned([error |-> NULL, data |-> data])
    [] o.kind = "error" -> Returned([error |-> o.error, data |-> data])
    [] o.kind = "throw" -> Returned([error |-> Normalise(o.thrown)])

\* lines 306-316
SignUpResult(o, data) ==
  CASE o.kind = "ok" -> Returned([error |-> NULL, data |-> data])
    [] o.kind = "error" -> Returned([error |-> o.error])
    [] o.kind = "throw" -> Returned([error |-> Normalise(o.thrown)])

\* lines 327-335
SignInResult(o) ==
  CASE o.kind = "ok" -> Returned([error |-> NULL])
    [] o.kind = "error" -> Returned([error |-> o.error])
    [] o.kind = "throw" -> Returned([error |-> Normalise(o.thrown)])

\* lines 346-349
MagicLinkResult(o) ==
  CASE o.kind = "ok" -> Returned([error |-> NULL])
    [] o.kind = "error" -> Returned([error |-> o.error])
    [] o.kind = "throw" -> Returned([error |-> o.thrown])

\* lines 353-357: the error is logged, nothing is returned, nothing is caught
SignOutResult(o) ==
  CASE o.kind = "ok" -> Returned(NULL)
    [] o.kind = "error" -> Returned(NULL)
    [] o.kind = "throw" -> Escaped(o.thrown)

Logged_Retry(op, o, req, res) ==
  [n |-> ops.n + 1,
   last |-> [op |-> op, outcome |-> o, request |-> req, result |-> res,
             sent |-> IF o.kind = "ok" THEN <<req>> ELSE <<req, req>>]]

\* one invocation of an operation: its single awaited provider call (sent),
\* what the provider did with it and what the operation gave its caller
Logged(op, o, req, res) ==
  [n |-> ops.n + 1,
   last |-> [op |-> op, outcome |-> o, request |-> req, result |-> res,
             sent |-> <<req>>]]

\* lines 293-317
SignUp(name) ==
  /\ ops.n < MaxOps
  /\ \E o \in Outcomes :
       LET req == [data |-> [name |-> OrEmpty(name)]]
           data == [user |-> [name |-> OrEmpty(name)], session |-> NULL]
       IN ops' = Logged("signUp", o, req, SignUpResult(o, data))
  /\ UNCHANGED <<authVars, provSession, events, gs, ver, reloads, lastEv,
                 upVars, profiles, dashVars, resVars>>

\* lines 320-336
SignIn(u) ==
  /\ ops.n < MaxOps
  /\ \E o \in Outcomes :
       /\ ops' = Logged("signIn", o, [id |-> u], SignInResult(o))
       /\ IF o.kind = "ok"
            THEN /\ ver < MaxVer
                 /\ ver' = ver + 1
                 /\ Emit("SIGNED_IN", SessionObj(u, ver + 1))
            ELSE UNCHANGED <<provSession, events, ver>>
  /\ UNCHANGED <<authVars, gs, reloads, lastEv,
                 upVars, profiles, dashVars, resVars>>

\* lines 338-350
SignInWithMagicLink(u) ==
  /\ ops.n < MaxOps
  /\ \E o \in Outcomes :
       ops' = Logged("signInWithMagicLink", o, [id |-> u], MagicLinkResult(o))
  /\ UNCHANGED <<authVars, provSession, events, gs, ver, reloads, lastEv,
                 upVars, profiles, dashVars, resVars>>

\* lines 352-357
SignOut_Clearing ==
  /\ ops.n < MaxOps
  /\ \E o \in Outcomes :
       /\ ops' = Logged("signOut", o, NULL, SignOutResult(o))
       /\ IF o.kind = "ok"
            THEN Emit("SIGNED_OUT", NULL)
            ELSE UNCHANGED <<provSession, events>>
  /\ user' = NULL /\ session' = NULL
  /\ UNCHANGED <<loading, gs, ver, reloads, lastEv,
                 upVars, profiles, dashVars, resVars>>

SignOut ==
  /\ ops.n < MaxOps
  /\ \E o \in Outcomes :
       /\ ops' = Logged("signOut", o, NULL, SignOutResult(o))
       /\ IF o.kind = "ok"
            THEN Emit("SIGNED_OUT", NULL)
            ELSE UNCHANGED <<provSession, events>>
  /\ UNCHANGED <<authVars, gs, ver, reloads, lastEv,
                 upVars, profiles, dashVars, resVars>>

\* ------------------------------------------------------------------ Dashboard
At == "@"

\* the index of the first '@' of s, or Len(s) + 1
FirstAt(s) ==
  IF \E i \in 1..Len(s) : s[i] = At
    THEN CHOOSE i \in 1..Len(s) : s[i] = At /\ \A j \in 1..(i-1) : s[j] # At
    ELSE Len(s) + 1

LocalPart_WholeEmail(s) == s

\* email.split('@')[0]
LocalPart(s) == SubSeq(s, 1, FirstAt(s) - 1)

UserLiteral == <<"U", "s", "e", "r">>

\* line 59: user.user_metadata?.name || user.email?.split('@')[0] || 'User'
DefaultName(a) ==
  IF OrEmpty(a.name) # <<>> THEN a.name.s
  ELSE IF a.email # NULL /\ LocalPart(a.email.s) # <<>> THEN LocalPart(a.email.s)
  ELSE UserLiteral

\* line 60: user.user_metadata?.avatar_url || ''
DefaultAvatar(a) == OrEmpty(a.avatar_url)

\* line 148: profile?.name || 'User'
DisplayName == IF profile # NULL /\ profile.name # <<>> THEN profile.name ELSE UserLiteral

\* line 150: user?.email
DisplayEmail == IF user = NULL THEN NULL ELSE attrs.email

\* .from('profiles').select('*').eq('id', id).single()
StoreSingle(rows, id) ==
  (IF HasRow(rows, id)
     THEN {[data |-> RowOf(rows, id), error |-> NULL]}
     ELSE {[data |-> NULL, error |-> Err(PGRST116)]})
  \cup {[data |-> NULL, error |-> Err(OtherError)]}

\* .insert(row).select().single(): the stored row comes back
StoreInsertSingle(rows, id, name, avatar) ==
  {[data |-> IF a[1] = NULL THEN Row(id, name, avatar) ELSE NULL,
    error |-> a[1], rows |-> a[2]] : a \in StoreInsert(rows, id, name, avatar)}

ResumeRow(id, uid, t) == [id |-> id, user_id |-> uid, created_at |-> t]

RECURSIVE InsertDesc(_, _)
InsertDesc(x, sorted) ==
  IF sorted = <<>> THEN <<x>>
  ELSE IF x.created_at >= Head(sorted).created_at THEN <<x>> \o sorted
  ELSE <<Head(sorted)>> \o InsertDesc(x, Tail(sorted))

RECURSIVE SortDesc(_)
SortDesc(rows) ==
  IF rows = <<>> THEN <<>> ELSE InsertDesc(Head(rows), SortDesc(Tail(rows)))

\* .from('resumes').select('*').eq('user_id', id).order('created_at', desc)
StoreResumes(rows, id) ==
  {[data |-> SortDesc(SelectSeq(rows, LAMBDA x : x.user_id = id)), error |-> NULL],
   [data |-> NULL, error |-> Err(OtherError)]}

ThrownAnswer == [thrown |-> TRUE]
Threw(ans) == "thrown" \in DOMAIN ans

AfterFinally_NoFinally(cur, threw) == IF threw THEN cur ELSE FALSE

\* lines 91-93: finally { setLoading(false) }, on the normal and the thrown path
AfterFinally(cur, threw) == FALSE

DoneRun(k) == [k EXCEPT !.pc = "done", !.ans = NULL]

\* lines 77-82: the resume read is issued and the run awaits its answer
AwaitResumes(r, k) ==
  \E ans \in StoreResumes(resumeRows, k.user.id) \cup {ThrownAnswer} :
    runs' = [runs EXCEPT ![r] =
               [k EXCEPT !.pc = "awaitResumes", !.ans = ans,
                         !.reqs = Append(k.reqs, "readResumes")]]

\* lines 39-49 and 96-97: the effect runs when user changed (or on mount)
FetchStart(r) ==
  /\ runs[r].pc = "idle"
  /\ \A q \in 1..(r-1) : runs[q].pc # "idle"
  /\ effectUser # user
  /\ effectUser' = user
  /\ IF user = NULL
       THEN runs' = [runs EXCEPT ![r] =
                       [pc |-> "done", user |-> NULL, reqs |-> <<>>, ans |-> NULL,
                        insReq |-> NULL, missed |-> FALSE]]
       ELSE \E ans \in StoreSingle(profiles, user.id) \cup {ThrownAnswer} :
              runs' = [runs EXCEPT ![r] =
                         [pc |-> "awaitProfile", user |-> user,
                          reqs |-> <<"readProfile">>, ans |-> ans,
                          insReq |-> NULL, missed |-> FALSE]]
  /\ UNCHANGED <<authVars, provVars, upVars, profiles, attrs, profile, resumes,
                 dLoading, editingProfile, newName, showUploadModal, resVars>>

\* lines 51-82: the continuation after the profile read
FetchAfterProfile(r) ==
  /\ runs[r].pc = "awaitProfile"
  /\ LET k == runs[r] IN
     IF Threw(k.ans)
       THEN \* lines 89-93
            /\ runs' = [runs EXCEPT ![r] = DoneRun(k)]
            /\ dLoading' = AfterFinally(dLoading, TRUE)
            /\ UNCHANGED <<profile, newName, profiles>>
     ELSE IF k.ans.error # NULL
       THEN IF k.ans.error.code = PGRST116
              THEN \* lines 55-65
                   LET req == Req("insert", k.user.id, DefaultName(attrs), DefaultAvatar(attrs)) IN
                   /\ \/ \E a \in StoreInsertSingle(profiles, req.id, req.name, req.avatar_url) :
                           /\ runs' = [runs EXCEPT ![r] =
                                [k EXCEPT !.pc = "awaitInsert",
                                          !.ans = [data |-> a.data, error |-> a.error],
                                          !.reqs = Append(k.reqs, "insertProfile"),
                                          !.insReq = req, !.missed = TRUE]]
                           /\ profiles' = a.rows
                      \/ /\ runs' = [runs EXCEPT ![r] =
                                [k EXCEPT !.pc = "awaitInsert", !.ans = ThrownAnswer,
                                          !.reqs = Append(k.reqs, "insertProfile"),
                                          !.insReq = req, !.missed = TRUE]]
                         /\ UNCHANGED profiles
                   /\ UNCHANGED <<profile, newName, dLoading>>
              ELSE /\ AwaitResumes(r, k)
                   /\ UNCHANGED <<profile, newName, dLoading, profiles>>
       ELSE \* lines 73-74
            /\ profile' = k.ans.data
            /\ newName' = k.ans.data.name
            /\ AwaitResumes(r, k)
            /\ UNCHANGED <<dLoading, profiles>>
  /\ UNCHANGED <<authVars, provVars, upVars, attrs, resumes, editingProfile,
                 showUploadModal, effectUser, resVars>>

Adopted_Never(cur, ans) == cur

\* lines 67-69: if (!createError && newProfile) setProfile(newProfile)
Adopted(cur, ans) == IF ans.error = NULL /\ ans.data # NULL THEN ans.data ELSE cur

\* lines 67-82: the continuation after the fallback insert
FetchAfterInsert(r) ==
  /\ runs[r].pc = "awaitInsert"
  /\ LET k == runs[r] IN
     IF Threw(k.ans)
       THEN /\ runs' = [runs EXCEPT ![r] = DoneRun(k)]
            /\ dLoading' = AfterFinally(dLoading, TRUE)
            /\ UNCHANGED <<profile, newName>>
     ELSE /\ profile' = Adopted(profile, k.ans)
          /\ newName' = IF k.ans.error = NULL /\ k.ans.data # NULL
                           THEN k.ans.data.name ELSE newName
          /\ AwaitResumes(r, k)
          /\ UNCHANGED dLoading
  /\ UNCHANGED <<authVars, provVars, upVars, profiles, attrs, resumes,
                 editingProfile, showUploadModal, effectUser, resVars>>

Listed_ClearOnError(cur, ans) ==
  IF ~Threw(ans) /\ ans.error = NULL THEN ans.data ELSE <<>>

\* lines 84-88: if (resumeError) log, else setResumes(resumeData || [])
Listed(cur, ans) == IF ~Threw(ans) /\ ans.error = NULL THEN ans.data ELSE cur

\* lines 84-93: the continuation after the resume read
FetchAfterResumes(r) ==
  /\ runs[r].pc = "awaitResumes"
  /\ LET k == runs[r] IN
     /\ runs' = [runs EXCEPT ![r] = DoneRun(k)]
     /\ resumes' = Listed(resumes, k.ans)
     /\ dLoading' = AfterFinally(dLoading, Threw(k.ans))
  /\ UNCHANGED <<authVars, provVars, upVars, profiles, attrs, profile,
                 editingProfile, newName, showUploadModal, effectUser, resVars>>

\* the "Upload" button: setShowUploadModal(true)
OpenUploadModal ==
  /\ ~dLoading /\ ~showUploadModal
  /\ showUploadModal' = TRUE
  /\ UNCHANGED <<authVars, provVars, upVars, profiles, attrs, profile, resumes,
                 dLoading, editingProfile, newName, runs, effectUser, resVars>>

\* The upload component stores the file and inserts its resumes row; the
\* store stamps created_at with its clock.
UploadStored ==
  /\ showUploadModal /\ user # NULL /\ pendingUpload = NULL
  /\ uploads < MaxUploads
  /\ clock' = clock + 1
  /\ LET row == ResumeRow(Len(resumeRows) + 1, user.id, clock + 1) IN
       /\ resumeRows' = Append(resumeRows, row)
       /\ pendingUpload' = row
  /\ uploads' = uploads + 1
  /\ UNCHANGED <<authVars, provVars, upVars, profiles, dashVars>>

Prepend_AtEnd(x, list) == list \o <<x>>

\* line 119: [newResume, ...prev]
Prepend(x, list) == <<x>> \o list

\* lines 118-121
HandleUploadSuccess ==
  /\ pendingUpload # NULL
  /\ resumes' = Prepend(pendingUpload, resumes)
  /\ showUploadModal' = FALSE
  /\ pendingUpload' = NULL
  /\ UNCHANGED <<authVars, provVars, upVars, profiles, attrs, profile, dLoading,
                 editingProfile, newName, runs, effectUser,
                 resumeRows, clock, uploads>>

\* lines 114-116: handleSignOut awaits signOut()
HandleSignOut ==
  /\ ~dLoading
  /\ SignOut

\* line 217: the "Edit Profile" button, rendered once loading is false
StartEdit ==
  /\ ~dLoading /\ ~editingProfile
  /\ editingProfile' = TRUE
  /\ UNCHANGED <<authVars, provVars, upVars, profiles, attrs, profile, resumes,
                 dLoading, newName, showUploadModal, runs, effectUser, resVars>>

\* line 184: onChange of the name input
TypeName(n) ==
  /\ ~dLoading /\ editingProfile /\ newName # n
  /\ newName' = n
  /\ UNCHANGED <<authVars, provVars, upVars, profiles, attrs, profile, resumes,
                 dLoading, editingProfile, showUploadModal, runs, effectUser,
                 resVars>>

\* line 198: the "Cancel" button
CancelEdit ==
  /\ ~dLoading /\ editingProfile
  /\ editingProfile' = FALSE
  /\ UNCHANGED <<authVars, provVars, upVars, profiles, attrs, profile, resumes,
                 dLoading, newName, showUploadModal, runs, effectUser, resVars>>

\* lines 98-101: the form is submitted and updateProfile(newName) is awaited
SubmitEdit(c) ==
  /\ ~dLoading /\ editingProfile
  /\ UpdateProfileCall(c, newName, NULL)

\* line 105: prev ? { ...prev, name: newName } : null
Renamed(prev, name) == IF prev # NULL THEN [prev EXCEPT !.name = name] ELSE NULL

\* lines 101-108: the continuation after updateProfile returned; newName is
\* the value the handler closed over, the submitted one
HandleUpdateProfileThen(c) ==
  /\ calls[c].pc = "done"
  /\ calls' = [calls EXCEPT ![c] = [@ EXCEPT !.pc = "handled"]]
  /\ IF calls[c].result.error = NULL
       THEN /\ profile' = Renamed(profile, calls[c].name)
            /\ editingProfile' = FALSE
       ELSE UNCHANGED <<profile, editingProfile>>
  /\ UNCHANGED <<authVars, provVars, hist, profiles, attrs, resumes, dLoading,
                 newName, showUploadModal, runs, effectUser, resVars>>

\* ------------------------------------------------------ initial conditions
InitialRows ==
  {<<>>, <<Row("u1", <<"o">>, <<>>)>>, <<Row("u2", <<"o">>, <<>>)>>,
   <<Row("u1", <<"o">>, <<>>), Row("u2", <<"o">>, <<>>)>>}

IdleRun == [pc |-> "idle", user |-> NULL, reqs |-> <<>>, ans |-> NULL,
            insReq |-> NULL, missed |-> FALSE]
Unmounted == [unmounted |-> TRUE]
NoOp == [n |-> 0, last |-> NULL]

NoAttrs == [email |-> NULL, name |-> NULL, avatar_url |-> NULL]

\* everything but the context's state, the provider's session and the table
InitRest ==
  /\ events = <<>>
  /\ ver = 0 /\ ops = NoOp /\ reloads = 0
  /\ lastEv = [event |-> "", prev |-> NULL]
  /\ calls = [c \in 1..MaxCalls |-> IdleCall]
  /\ hist = [overlap |-> FALSE, lastDone |-> 0, lastOk |-> 0]
  /\ profile = NULL /\ resumes = <<>> /\ dLoading = TRUE
  /\ editingProfile = FALSE /\ newName = <<>> /\ showUploadModal = FALSE
  /\ runs = [r \in 1..MaxRuns |-> IdleRun] /\ effectUser = Unmounted
  /\ pendingUpload = NULL /\ uploads = 0

\* updateProfile invoked from a context whose user is settled
InitProfile ==
  /\ InitRest
  /\ user \in {NULL} \cup {UserObj(u, 1) : u \in Users}
  /\ session = IF user = NULL THEN NULL ELSE [user |-> user]
  /\ provSession = session
  /\ gs = [st |-> "done", val |-> session]
  /\ loading = FALSE
  /\ profiles \in InitialRows
  /\ attrs = NoAttrs /\ resumeRows = <<>> /\ clock = 0

NextProfile ==
  \/ \E c \in 1..MaxCalls, n \in Names, a \in AvatarArgs : UpdateProfileCall(c, n, a)
  \/ \E c \in 1..MaxCalls : UpdateProfileResume(c)

SpecProfile == InitProfile /\ [][NextProfile]_vars

\* AuthProvider just constructed (lines 268-291): getSession() is pending and
\* the callback is subscribed; the provider may hold a session from before
InitAuth ==
  /\ InitRest
  /\ user = NULL /\ session = NULL /\ loading = TRUE
  /\ provSession \in {NULL, SessionObj("u1", 0)}
  /\ gs = [st |-> "issued", val |-> NULL]
  /\ profiles = <<>>
  /\ attrs = NoAttrs /\ resumeRows = <<>> /\ clock = 0

NextAuth ==
  \/ GetSessionResolve
  \/ GetSessionThen
  \/ AuthStateChange
  \/ \E u \in Users : ProviderSignIn(u)
  \/ ProviderRefresh
  \/ Reload
  \/ \E n \in {NULL, Str(<<"n">>)} : SignUp(n)
  \/ \E u \in Users : SignIn(u)
  \/ \E u \in Users : SignInWithMagicLink(u)
  \/ SignOut

SpecAuth == InitAuth /\ [][NextAuth]_vars

CallsStarted == Cardinality({c \in 1..MaxCalls : calls[c].pc # "idle"})
RunsStarted == Cardinality({r \in 1..MaxRuns : runs[r].pc # "idle"})
Invocations == ops.n + CallsStarted + RunsStarted

\* The application: the Dashboard mounted under the AuthProvider, with the
\* five operations of the context and the fetch effect invoked at any moment,
\* MaxOps invocations in all
NextApp ==
  \/ GetSessionResolve
  \/ GetSessionThen
  \/ AuthStateChange
  \/ Invocations < MaxOps /\ \E n \in {NULL, Str(<<"n">>)} : SignUp(n)
  \/ Invocations < MaxOps /\ \E u \in Users : SignIn(u)
  \/ Invocations < MaxOps /\ \E u \in Users : SignInWithMagicLink(u)
  \/ Invocations < MaxOps /\ SignOut
  \/ Invocations < MaxOps /\ \E c \in 1..MaxCalls : UpdateProfileCall(c, <<"n">>, NULL)
  \/ \E c \in 1..MaxCalls : UpdateProfileResume(c)
  \/ Invocations < MaxOps /\ \E r \in 1..MaxRuns : FetchStart(r)
  \/ \E r \in 1..MaxRuns : FetchAfterProfile(r)
  \/ \E r \in 1..MaxRuns : FetchAfterInsert(r)
  \/ \E r \in 1..MaxRuns : FetchAfterResumes(r)

SpecApp == InitAuth /\ [][NextApp]_vars

EmailAB == <<"a", "@", "b", ".", "c", "o", "m">>
Attrs(email, name, avatar) == [email |-> email, name |-> name, avatar_url |-> avatar]
InitialAttrs ==
  {Attrs(Str(EmailAB), NULL, NULL), Attrs(Str(EmailAB), Str(<<"Z">>), Str(<<"p">>)),
   Attrs(Str(<<"@", "b">>), Str(<<>>), NULL), Attrs(Str(<<"a", "b">>), NULL, Str(<<>>)),
   Attrs(Str(<<>>), NULL, NULL), Attrs(NULL, NULL, NULL)}

\* Dashboard just mounted (lines 30-37) for the signed-in user u1
InitMounted ==
  /\ InitRest
  /\ user = UserObj("u1", 0) /\ session = SessionObj("u1", 0)
  /\ provSession = session /\ gs = [st |-> "done", val |-> session]
  /\ loading = FALSE
  /\ resumeRows = <<ResumeRow(1, "u1", 1), ResumeRow(2, "u2", 2)>>
  /\ clock = 2

\* the user a@b.com without metadata, whose profile row does not exist yet
InitDash ==
  /\ InitMounted
  /\ profiles = <<>>
  /\ attrs = Attrs(Str(EmailAB), NULL, NULL)

NextDash ==
  \/ \E r \in 1..MaxRuns : FetchStart(r)
  \/ \E r \in 1..MaxRuns : FetchAfterProfile(r)
  \/ \E r \in 1..MaxRuns : FetchAfterInsert(r)
  \/ \E r \in 1..MaxRuns : FetchAfterResumes(r)
  \/ OpenUploadModal
  \/ UploadStored
  \/ HandleUploadSuccess
  \/ HandleSignOut
  \/ ProviderRefresh
  \/ AuthStateChange

SpecDash == InitDash /\ [][NextDash]_vars

\* Dashboard just mounted (lines 30-37) under a settled context, with or
\* without a user
InitMount ==
  /\ InitRest
  /\ user \in {NULL, UserObj("u1", 0)}
  /\ session = IF user = NULL THEN NULL ELSE SessionObj("u1", 0)
  /\ provSession = session /\ gs = [st |-> "done", val |-> session]
  /\ loading = FALSE
  /\ resumeRows = <<ResumeRow(1, "u1", 1), ResumeRow(2, "u2", 2)>>
  /\ clock = 2
  /\ profiles \in {<<>>, <<Row("u1", <<"o">>, <<>>)>>}
  /\ attrs = Attrs(Str(EmailAB), NULL, NULL)

NextMount ==
  \/ \E r \in 1..MaxRuns : FetchStart(r)
  \/ \E r \in 1..MaxRuns : FetchAfterProfile(r)
  \/ \E r \in 1..MaxRuns : FetchAfterInsert(r)
  \/ \E r \in 1..MaxRuns : FetchAfterResumes(r)
  \/ \E u \in Users : ProviderSignIn(u)
  \/ ProviderRefresh
  \/ AuthStateChange

\* React runs the effect after each render that changed user, and every
\* request of the store client settles
FairMount ==
  /\ WF_vars(\E r \in 1..MaxRuns : FetchStart(r))
  /\ WF_vars(\E r \in 1..MaxRuns : FetchAfterProfile(r))
  /\ WF_vars(\E r \in 1..MaxRuns : FetchAfterInsert(r))
  /\ WF_vars(\E r \in 1..MaxRuns : FetchAfterResumes(r))

SpecMount == InitMount /\ [][NextMount]_vars /\ FairMount

\* the profile panel: the fetch of the mounted Dashboard and the edit form
InitEdit ==
  /\ InitMounted
  /\ profiles \in {<<>>, <<Row("u1", <<"o">>, <<>>)>>}
  /\ attrs = Attrs(Str(EmailAB), NULL, NULL)

NextEdit ==
  \/ \E r \in 1..MaxRuns : FetchStart(r)
  \/ \E r \in 1..MaxRuns : FetchAfterProfile(r)
  \/ \E r \in 1..MaxRuns : FetchAfterInsert(r)
  \/ \E r \in 1..MaxRuns : FetchAfterResumes(r)
  \/ StartEdit
  \/ \E n \in Names : TypeName(n)
  \/ CancelEdit
  \/ CallsStarted < MaxOps /\ \E c \in 1..MaxCalls : SubmitEdit(c)
  \/ \E c \in 1..MaxCalls : UpdateProfileResume(c)
  \/ \E c \in 1..MaxCalls : HandleUpdateProfileThen(c)

SpecEdit == InitEdit /\ [][NextEdit]_vars

\* the profile synchronisation alone, for users of every kind of identity
\* metadata, with and without a profile row
InitSync ==
  /\ InitMounted
  /\ profiles \in {<<>>, <<Row("u1", <<"o">>, <<>>)>>}
  /\ attrs \in InitialAttrs

NextSync ==
  \/ \E r \in 1..MaxRuns : FetchStart(r)
  \/ \E r \in 1..MaxRuns : FetchAfterProfile(r)
  \/ \E r \in 1..MaxRuns : FetchAfterInsert(r)
  \/ \E r \in 1..MaxRuns : FetchAfterResumes(r)
  \/ ProviderRefresh
  \/ AuthStateChange

SpecSync == InitSync /\ [][NextSync]_vars

\* ------------------------------------------------------------------ claims
SignedInCalls == {c \in 1..MaxCalls : calls[c].pc # "idle" /\ calls[c].uid # ""}
ArgsReq(kind, k) == Req(kind, k.uid, k.name, OrEmpty(k.avatarUrl))

C1_Requests ==
  \A c \in SignedInCalls :
    LET k == calls[c] IN
    /\ user # NULL /\ k.uid = user.id
    /\ Len(k.reqs) \in {1, 2}
    /\ k.reqs[1] = ArgsReq("update", k)
    /\ Len(k.reqs) = 2 =>
         /\ k.reqs[2] = ArgsReq("insert", k)
         /\ k.updErr = Err(PGRST116)
    /\ k.pc = "done" => (Len(k.reqs) = 2 <=> k.updErr = Err(PGRST116))
    /\ k.pc = "done" =>
         k.result = [error |-> IF Len(k.reqs) = 2 THEN k.insErr ELSE k.updErr]

Returns(c) == calls[c].pc # "done" /\ calls'[c].pc = "done" /\ calls'[c].uid # ""

RowMatches(rows, k) ==
  /\ HasRow(rows, k.uid)
  /\ RowOf(rows, k.uid) = Row(k.uid, k.name, OrEmpty(k.avatarUrl))

C1_RowAfterInsert ==
  \A c \in 1..MaxCalls :
    (Returns(c) /\ Len(calls'[c].reqs) = 2 /\ calls'[c].insErr = NULL)
      => RowMatches(profiles', calls'[c])

C1_RowAfterCall ==
  \A c \in 1..MaxCalls :
    (Returns(c) /\ ~hist'.overlap /\ ~calls'[c].existed)
      => RowMatches(profiles', calls'[c])

C3_UpdateOnly ==
  \A c \in SignedInCalls : calls[c].existed => Len(calls[c].reqs) = 1

Quiet == \A c \in 1..MaxCalls : ~InFlight(c)

C3_LastOkWins ==
  (~hist.overlap /\ Quiet /\ hist.lastOk # 0
     /\ HasRow(profiles, calls[hist.lastOk].uid))
    => RowMatches(profiles, calls[hist.lastOk])

C3_LastCallWins ==
  (~hist.overlap /\ Quiet /\ hist.lastDone # 0
     /\ HasRow(profiles, calls[hist.lastDone].uid))
    => RowMatches(profiles, calls[hist.lastDone])

C3_SameAgain ==
  \A c \in 1..MaxCalls :
    (/\ calls[c].pc = "idle" /\ calls'[c].pc = "awaitUpdate"
     /\ calls'[c].updErr = NULL
     /\ RowMatches(profiles, calls'[c]))
      => profiles' = profiles

\* C3 (as amended): a call that finds the user's row issues the update and
\* no insert; repeating a call with the same values leaves the row as the
\* first left it; and after sequential calls the row holds the name and
\* avatar_url of the last call that returned no error.
C3_Idempotent ==
  [](C3_UpdateOnly /\ C3_LastOkWins) /\ [][C3_SameAgain]_vars

\* C3 (as stated): after sequential calls the row holds the values of the
\* last call, whatever that call returned.
C3_AsStated ==
  [](C3_UpdateOnly /\ C3_LastCallWins) /\ [][C3_SameAgain]_vars

C3_Witness ==
  /\ ~hist.overlap /\ hist.lastOk = 2
  /\ calls[1].result = [error |-> NULL] /\ calls[2].existed
  /\ calls[1].name = calls[2].name /\ calls[1].avatarUrl = calls[2].avatarUrl
  /\ RowMatches(profiles, calls[2])

DeliversSignOut ==
  /\ events # <<>> /\ Head(events).event = "SIGNED_OUT"
  /\ events' = Tail(events)
  /\ reloads' = reloads

\* C4: when the callback is handed the SIGNED_OUT event that a signOut()
\* made the provider emit, user and session both become null in that step,
\* with no re-initialisation of the context.
C4_SignOutClears ==
  [][DeliversSignOut => (user' = NULL /\ session' = NULL /\ gs' = gs)]_vars

C4_Witness ==
  /\ lastEv.event = "SIGNED_OUT" /\ lastEv.prev # NULL
  /\ ops.last # NULL /\ ops.last.op = "signOut" /\ ops.last.outcome.kind = "ok"
  /\ user = NULL /\ session = NULL /\ reloads = 0

Settled == events = <<>> /\ gs.st = "done"

\* C5: the context's session mirrors the provider's: once the provider has
\* stopped changing its session and every answer and event it produced has
\* been handled, session and user equal the provider's session and its user,
\* also when the getSession() answer is handled after a later event.
C5_Mirror == Settled => (session = provSession /\ user = UserOf(provSession))

Failed(o) == o.kind # "ok"

\* C6: signUp returns {error: null, data} with the provider's data when the
\* provider reports success, and a non-null error and no data field when the
\* provider reports an error or the call throws.
C6_SignUpResult ==
  (ops.last # NULL /\ ops.last.op = "signUp") =>
    LET r == ops.last.result IN
    /\ ~r.escaped
    /\ ~Failed(ops.last.outcome) =>
         r.value = [error |-> NULL,
                    data |-> [user |-> ops.last.request.data, session |-> NULL]]
    /\ Failed(ops.last.outcome) =>
         /\ DOMAIN r.value = {"error"}
         /\ r.value.error # NULL

C6_Witness ==
  /\ ops.n > 0 /\ ops.last.op = "signUp"
  /\ ops.last.outcome.kind = "error"
  /\ ops.last.result.value = [error |-> AuthError]

\* C10: every failure of the external call of signUp, signIn,
\* signInWithMagicLink, signOut and updateProfile comes back to the caller as
\* a non-null error in the result, and no exception escapes.
C10_FailuresReturned ==
  /\ (ops.last # NULL /\ Failed(ops.last.outcome)) =>
       LET r == ops.last.result IN
       /\ ~r.escaped
       /\ r.value # NULL /\ r.value.error # NULL
  /\ \A c \in 1..MaxCalls :
       (calls[c].pc = "done" /\ (calls[c].updErr # NULL \/ calls[c].insErr # NULL))
         => calls[c].result.error # NULL

NonEmpty(v) == v # NULL /\ v.s # <<>>

\* l is what stands before the first '@' of e (all of e when it has none)
IsLocalPartOf(l, e) ==
  /\ \A i \in 1..Len(l) : l[i] # At
  /\ Len(l) <= Len(e) /\ SubSeq(e, 1, Len(l)) = l
  /\ Len(l) = Len(e) \/ e[Len(l) + 1] = At

HasLocalPart(v) == NonEmpty(v) /\ v.s[1] # At

C7_DefaultRow ==
  \A r \in 1..MaxRuns :
    runs[r].insReq # NULL =>
      LET q == runs[r].insReq IN
      /\ runs[r].missed /\ q.id = runs[r].user.id
      /\ NonEmpty(attrs.name) => q.name = attrs.name.s
      /\ (~NonEmpty(attrs.name) /\ HasLocalPart(attrs.email)) =>
           (q.name # <<>> /\ IsLocalPartOf(q.name, attrs.email.s))
      /\ (~NonEmpty(attrs.name) /\ ~HasLocalPart(attrs.email)) =>
           q.name = <<"U", "s", "e", "r">>
      /\ q.avatar_url = IF NonEmpty(attrs.avatar_url) THEN attrs.avatar_url.s ELSE <<>>

ExampleUser == attrs.email = Str(EmailAB) /\ attrs.name = NULL
InsertAnswered(r) == runs[r].pc = "awaitInsert" /\ runs'[r].pc # "awaitInsert"
ShowsExample == DisplayName' = <<"a">> /\ DisplayEmail' = Str(EmailAB)

C7_ExampleAfterInsert ==
  \A r \in 1..MaxRuns :
    (/\ InsertAnswered(r) /\ ExampleUser /\ user' # NULL
     /\ ~Threw(runs[r].ans) /\ runs[r].ans.error = NULL)
      => ShowsExample

C7_ExampleAlways ==
  \A r \in 1..MaxRuns :
    (InsertAnswered(r) /\ ExampleUser /\ user' # NULL) => ShowsExample

\* C7 (as amended): the default profile inserted after a 'row not found'
\* read has as name the metadata name if non-empty, else the part of the
\* email before '@' if non-empty, else "User", and as avatar_url the metadata
\* avatar or empty; for the user a@b.com without metadata name and without a
\* row the Dashboard shows name "a" and email "a@b.com" once that insert has
\* reported no error and while the user stays signed in.
C7_DefaultProfile == []C7_DefaultRow /\ [][C7_ExampleAfterInsert]_vars

\* C7 (as stated): the example user is shown as "a" whatever the insert
\* answered.
C7_AsStated == []C7_DefaultRow /\ [][C7_ExampleAlways]_vars

C7_Witness ==
  /\ ExampleUser /\ user # NULL
  /\ \E r \in 1..MaxRuns :
       /\ runs[r].pc = "done" /\ runs[r].missed
       /\ runs[r].insReq.name = <<"a">>
  /\ profile # NULL /\ DisplayName = <<"a">> /\ DisplayEmail = Str(EmailAB)

Inserting == {r \in 1..MaxRuns : runs[r].insReq # NULL}

\* C8: over any sequence of Dashboard effect runs for one user, a missing
\* profile row makes the runs issue one default-profile insert, not more,
\* and the table holds one row for the user, not more.
C8_OneDefaultInsert ==
  /\ Cardinality(Inserting) <= 1
  /\ \A u \in Users : Cardinality(RowsOf(profiles, u)) <= 1

\* C9: the Dashboard's resume list is sorted by created_at descending in
\* every reachable state, the store answering reads in that order and each
\* upload being stamped later than every row stored before it.
C9_SortedDesc ==
  \A i \in 1..(Len(resumes) - 1) :
    resumes[i].created_at >= resumes[i + 1].created_at

C9_Witness ==
  /\ Len(resumes) >= 2 /\ pendingUpload = NULL /\ uploads > 0
  /\ resumes[1].created_at > 2
  /\ \E r \in 1..MaxRuns : runs[r].pc = "done" /\ Len(runs[r].reqs) > 1

SameContext == reloads' = reloads
Authenticated == user # NULL
EventDelivered == events # <<>> /\ events' = Tail(events)

C11_LoadingOnce == SameContext => (~loading => ~loading')

C11_MovesByEvent ==
  (SameContext /\ ~loading /\ Authenticated' # Authenticated) => EventDelivered

\* C11: loading starts true and, once false, never becomes true again in
\* that context; from then on the context moves between authenticated
\* (user non-null) and unauthenticated (user null) only in a step that
\* delivers a provider state-change event.
C11_LoadingThenEvents ==
  (reloads = 0 /\ gs.st = "issued" /\ lastEv.event = "" => loading)
    /\ [][C11_LoadingOnce /\ C11_MovesByEvent]_vars

OperationStep == ops' # ops \/ calls' # calls
ContinuationRan == gs.st = "resolved" /\ gs'.st = "done"

C12_OperationsWriteNothing == OperationStep => UNCHANGED authVars

C12_TwoWriters == authVars' # authVars => (ContinuationRan \/ EventDelivered)

\* C12: no step of signUp, signIn, signInWithMagicLink, signOut or
\* updateProfile changes user, session or loading; the three change only in
\* the getSession continuation and in the state-change callback, so user and
\* session keep their values across signOut() until the event is delivered.
C12_FrameOfOperations == [][C12_OperationsWriteNothing /\ C12_TwoWriters]_vars

C12_Witness ==
  /\ ops.last # NULL /\ ops.last.op = "signOut" /\ ops.last.outcome.kind = "ok"
  /\ events # <<>> /\ Head(events).event = "SIGNED_OUT"
  /\ user # NULL /\ session # NULL

Times(seq, x) == Cardinality({i \in DOMAIN seq : seq[i] = x})
Kinds(reqs) == [i \in DOMAIN reqs |-> reqs[i].kind]

\* C13: one invocation of signUp, signIn, signInWithMagicLink or signOut
\* sends exactly one provider call; one updateProfile call sends at most one
\* update and at most one insert; one fetch run sends at most one profile
\* read, one profile insert and one resume read, whatever the answers.
C13_NoRetry ==
  /\ ops.last # NULL => Len(ops.last.sent) = 1
  /\ \A c \in 1..MaxCalls :
       /\ Times(Kinds(calls[c].reqs), "update") <= 1
       /\ Times(Kinds(calls[c].reqs), "insert") <= 1
  /\ \A r \in 1..MaxRuns :
       \A k \in {"readProfile", "insertProfile", "readResumes"} :
         Times(runs[r].reqs, k) <= 1

C13_Witness ==
  /\ ops.last # NULL /\ ops.last.op = "signIn"
  /\ ops.last.outcome.kind = "throw" /\ Len(ops.last.sent) = 1

InsertIssued(r) ==
  Times(runs'[r].reqs, "insertProfile") > Times(runs[r].reqs, "insertProfile")

C14_InsertOnlyOnMiss ==
  \A r \in 1..MaxRuns :
    InsertIssued(r) =>
      /\ runs[r].pc = "awaitProfile" /\ ~Threw(runs[r].ans)
      /\ runs[r].ans.error # NULL /\ runs[r].ans.error.code = PGRST116

InsertContinued(r) == runs[r].pc = "awaitInsert" /\ runs'[r] # runs[r]
InsertSucceeded(a) == ~Threw(a) /\ a.error = NULL
InsertedRow(q) == Row(q.id, q.name, q.avatar_url)

C14_Adopts(r) ==
  (InsertContinued(r) /\ InsertSucceeded(runs[r].ans)) =>
    /\ profile' = InsertedRow(runs[r].insReq)
    /\ newName' = runs[r].insReq.name

C14_FailureKeeps(r) ==
  (InsertContinued(r) /\ ~InsertSucceeded(runs[r].ans)) =>
    /\ profile' = profile
    /\ runs'[r].reqs = IF Threw(runs[r].ans) THEN runs[r].reqs
                       ELSE Append(runs[r].reqs, "readResumes")

C14_FailureStops(r) ==
  (InsertContinued(r) /\ ~InsertSucceeded(runs[r].ans)) =>
    /\ profile' = profile
    /\ runs'[r].reqs = runs[r].reqs

C14_NothingAfterResumes ==
  \A r \in 1..MaxRuns :
    \A i \in DOMAIN runs[r].reqs :
      runs[r].reqs[i] = "readResumes" => i = Len(runs[r].reqs)

\* C14: a fetch run issues the profile insert only on a profile read answered
\* with PGRST116; when the insert succeeds the in-memory profile becomes the
\* inserted row and the edit field its name; when the insert fails the
\* profile is left as it was, no further profile read or insert is issued in
\* the run, and the resume read is still issued unless the insert threw.
C14_FallbackInsert ==
  /\ []C14_NothingAfterResumes
  /\ [][C14_InsertOnlyOnMiss
         /\ \A r \in 1..MaxRuns : C14_Adopts(r) /\ C14_FailureKeeps(r)]_vars

\* C14 as stated: after a failed insert the run issues nothing more
C14_AsStated ==
  /\ []C14_NothingAfterResumes
  /\ [][C14_InsertOnlyOnMiss
         /\ \A r \in 1..MaxRuns : C14_Adopts(r) /\ C14_FailureStops(r)]_vars

C14_Witness ==
  \E r \in 1..MaxRuns :
    /\ runs[r].pc = "awaitResumes" /\ runs[r].insReq # NULL
    /\ runs[r].reqs = <<"readProfile", "insertProfile", "readResumes">>
    /\ profile = NULL /\ ~HasRow(profiles, runs[r].user.id)

EditReturned(c) == calls[c].pc = "done" /\ calls'[c].pc = "handled"
StoredName(u) == IF HasRow(profiles, u) THEN Str(RowOf(profiles, u).name) ELSE NULL

C15_Applied(c) ==
  (EditReturned(c) /\ calls[c].result.error = NULL) =>
    /\ profile' # NULL /\ profile'.name = calls[c].name
    /\ ~editingProfile'
    /\ StoredName(calls[c].uid)' = Str(DisplayName')

C15_Kept(c) ==
  (EditReturned(c) /\ calls[c].result.error # NULL) =>
    UNCHANGED <<profile, editingProfile>>

\* C15: when updateProfile returns no error to handleUpdateProfile the
\* in-memory profile's name becomes the submitted name, edit mode closes and
\* the displayed name is the name stored in the user's row; when it returns
\* an error the in-memory profile and the edit-mode flag are unchanged.
C15_EditApplied == [][\A c \in 1..MaxCalls : C15_Applied(c) /\ C15_Kept(c)]_vars

ProfileAnswered(r) == runs[r].pc = "awaitProfile" /\ runs'[r] # runs[r]
ReturnedError(a) == ~Threw(a) /\ a.error # NULL
RunEnded(r) == runs[r].pc # "done" /\ runs'[r].pc = "done" /\ runs'[r].user # NULL
ResumeReadIssued(r) == Times(runs'[r].reqs, "readResumes") = 1

C16_OtherError(r) ==
  (ProfileAnswered(r) /\ ReturnedError(runs[r].ans)
     /\ runs[r].ans.error.code # PGRST116) =>
    /\ profile' = profile /\ profiles' = profiles
    /\ runs'[r].reqs = Append(runs[r].reqs, "readResumes")

C16_Miss(r) ==
  /\ (ProfileAnswered(r) /\ ReturnedError(runs[r].ans)
        /\ runs[r].ans.error.code = PGRST116) =>
       runs'[r].reqs = Append(runs[r].reqs, "insertProfile")
  /\ (InsertContinued(r) /\ ~Threw(runs[r].ans)) =>
       runs'[r].reqs = Append(runs[r].reqs, "readResumes")

C16_ResumeError(r) ==
  (runs[r].pc = "awaitResumes" /\ runs'[r] # runs[r]
     /\ (Threw(runs[r].ans) \/ runs[r].ans.error # NULL)) =>
    resumes' = resumes

C16_OnlyThrowSkips(r) ==
  (RunEnded(r) /\ ~ResumeReadIssued(r)) =>
    runs[r].pc \in {"awaitProfile", "awaitInsert"} /\ Threw(runs[r].ans)

ProfileReadFailed(r) ==
  \/ runs[r].pc = "awaitProfile" /\ ReturnedError(runs[r].ans)
  \/ runs[r].missed

C16_NeverSkips(r) ==
  (RunEnded(r) /\ ProfileReadFailed(r)) => ResumeReadIssued(r)

\* C16: a returned profile read error other than PGRST116 leaves the
\* in-memory profile unchanged and issues no insert; a failed resume read
\* leaves the resume list unchanged; after a returned profile read error of
\* either kind the run goes on to the resume read, and a run ends without
\* the resume read only when the profile read or the fallback insert threw.
C16_ReadErrors ==
  [][\A r \in 1..MaxRuns :
       C16_OtherError(r) /\ C16_Miss(r) /\ C16_ResumeError(r)
         /\ C16_OnlyThrowSkips(r)]_vars

\* C16 as stated: every run whose profile read returned an error issues the
\* resume read
C16_AsStated ==
  [][\A r \in 1..MaxRuns :
       C16_OtherError(r) /\ C16_ResumeError(r) /\ C16_NeverSkips(r)]_vars

C16_Witness ==
  \E r \in 1..MaxRuns :
    /\ runs[r].pc = "awaitResumes"
    /\ runs[r].reqs = <<"readProfile", "readResumes">>
    /\ profile = NULL /\ HasRow(profiles, runs[r].user.id)

EffectRan(r) == runs[r].pc = "idle" /\ runs'[r].pc # "idle"

C17_NullUserIdle ==
  \A r \in 1..MaxRuns :
    (EffectRan(r) /\ user = NULL) =>
      /\ runs'[r].reqs = <<>> /\ runs'[r].pc = "done"
      /\ dLoading' = dLoading /\ profiles' = profiles

\* C17: with a non-null user the Dashboard's loading flag eventually becomes
\* false, whether the profile read, the fallback insert and the resume read
\* succeed, return an error or throw; an effect run with a null user sends
\* no request and leaves the loading flag as it was.
C17_LoadingEnds == (Authenticated ~> ~dLoading) /\ [][C17_NullUserIdle]_vars

C17_Witness ==
  /\ ~dLoading /\ user # NULL
  /\ \E r \in 1..MaxRuns :
       runs[r].pc = "done" /\ runs[r].reqs = <<"readProfile", "insertProfile">>
  /\ \E r \in 1..MaxRuns :
       runs[r].pc = "done" /\ runs[r].user = NULL /\ runs[r].reqs = <<>>

\* C18: in every reachable state of the context user is null exactly when
\* session is null, and a non-null session's user is the context's user.
C18_UserOfSession ==
  /\ (user = NULL) <=> (session = NULL)
  /\ session # NULL => user = session.user

C18_Witness ==
  /\ session # NULL /\ user = session.user
  /\ lastEv.event = "SIGNED_IN" /\ lastEv.prev # NULL /\ lastEv.prev # user
  /\ gs.st = "done"

UploadedRows ==
  {resumeRows[i] : i \in (Len(resumeRows) - uploads + 1)..Len(resumeRows)}
    \ {pendingUpload}

\* C19: a resume that handleUploadSuccess has prepended is in the in-memory
\* list exactly once for as long as its user is the signed-in user, however
\* the resume fetches of the effect runs interleave with the upload.
C19_UploadStays ==
  \A x \in UploadedRows :
    (user # NULL /\ user.id = x.user_id) => Times(resumes, x) = 1

====
